---- MODULE Spec2Model ----
(***************************************************************************)
(* A model of functime's panel feature / forecasting engine.               *)
(*                                                                         *)
(* A panel is a long-format table (entity, time, value).  It is modelled   *)
(* as a function from entity to that entity's series; row i of an entity   *)
(* carries the integer timestamp i.  An entity whose series is empty has   *)
(* no row in the panel.  Values are exact numbers (integers and ratios of  *)
(* integers): floating-point rounding is outside the model.                *)
(*                                                                         *)
(* Three specifications share the variables:                               *)
(*   SpecFeatures  the stateless transforms and index generators           *)
(*                 (lag, roll, diff, boxcox, holiday effects, future       *)
(*                 calendar and holiday effects),                          *)
(*                 each run once on the panel and once more on an edited   *)
(*                 copy of it;                                             *)
(*   SpecForecast  one forecaster object with default keyword arguments    *)
(*                 over every panel: fit, then predict;                    *)
(*   SpecFit       the same object over every forecaster kind, intercept   *)
(*                 setting and kind of exogenous frame.                    *)
(***************************************************************************)
EXTENDS Integers, Sequences, FiniteSets, TLC

\* ------------------------------------------------------------------ bounds
MaxLen == 3
MaxLag == 2
MaxWin == 2
MaxSp == 2
MaxFh == 2
MaxStep == 2

Entities == {"a", "b"}
\* The entity column sorted, as in a frame sorted by (entity, time).
EntityOrder == <<"a", "b">>
\* Observed values: strictly positive, as the Box-Cox tests require.
Values == {1, 2}

VARIABLES
    panel,   \* the input panel: entity -> series
    call,    \* the transform applied last, with its arguments
    res,     \* what the call returned on panel
    edit,    \* the edit that turned panel into the second input
    res2,    \* what the same call returned on the edited panel
    cfg,     \* the forecaster object: its class and constructor arguments
    exog,    \* the exogenous frame X given to fit
    pc,      \* where the forecaster is: new, autoreg, training, fitted, ...
    err,     \* the exception fit raised, if any
    args,    \* the keyword arguments fit_autoreg was called with
    partial, \* fit_autoreg's local list of the models trained so far
    ncalls,  \* how often the regress function has been invoked
    fitted,  \* the forecaster's fitted state
    pfh,     \* the horizon of the predict call in progress
    walk,    \* the walk-forward loop of the predict call in progress: its
             \* step, each entity's history buffer, the feature rows it
             \* built, the predictions it made, and the one-step model
    y_pred   \* what predict returned

featureVars == <<call, res, edit, res2>>
forecastVars == <<cfg, exog, pc, err, args, partial, ncalls, fitted, pfh, walk, y_pred>>
vars == <<panel, call, res, edit, res2, cfg, exog, pc, err, args, partial,
          ncalls, fitted, pfh, walk, y_pred>>

\* ----------------------------------------------------------------- helpers
Null == <<>>
Some(v) == <<v>>

Max(S) == CHOOSE x \in S : \A y \in S : y <= x
Min(S) == CHOOSE x \in S : \A y \in S : x <= y

RECURSIVE SumSeq(_)
SumSeq(s) == IF s = <<>> THEN 0 ELSE Head(s) + SumSeq(Tail(s))

Series == UNION {[1..n -> Values] : n \in 0..MaxLen}
Panels == [Entities -> Series]

\* The entities that have at least one row.
Present(X) == {e \in Entities : Len(X[e]) > 0}

\* ------------------------------------------------------------------- lag
\* functime.preprocessing.lag: per entity, the value k observations back for
\* every requested k; the rows whose largest lag has no history are dropped.
lag(X, lags) ==
    LET m == Max(lags) IN
    UNION {{[entity |-> e, time |-> t,
             lag |-> [k \in lags |-> Some(X[e][t - k])]] :
            t \in (m + 1)..Len(X[e])} : e \in Entities}

\* The whole value column of the frame sorted by (entity, time).
RECURSIVE LongColumn(_, _)
LongColumn(X, i) ==
    IF i > Len(EntityOrder) THEN <<>>
    ELSE X[EntityOrder[i]] \o LongColumn(X, i + 1)

\* The position of row (e, t) in that column.
RECURSIVE RowsBefore(_, _, _)
RowsBefore(X, e, i) ==
    IF EntityOrder[i] = e THEN 0
    ELSE Len(X[EntityOrder[i]]) + RowsBefore(X, e, i + 1)

\* A shift of the whole column, not of each group: the first rows of an
\* entity take the last values of the entity before it.
FrameShift(X, k) ==
    [e \in Entities |->
        [t \in 1..Len(X[e]) |->
            LET p == RowsBefore(X, e, 1) + t IN
            IF p > k THEN Some(LongColumn(X, 1)[p - k]) ELSE Null]]

\* pandas X.groupby(level=0).shift(k): NaN where the group has no row k back.
GroupShift(X, k) ==
    [e \in Entities |->
        [t \in 1..Len(X[e]) |-> IF t > k THEN Some(X[e][t - k]) ELSE Null]]

\* The tests' reference: the original column joined with one shifted column
\* per lag.
pd_lag(X, lags) ==
    UNION {{[entity |-> e, time |-> t, value |-> Some(X[e][t]),
             lag |-> [k \in lags |-> GroupShift(X, k)[e][t]]] :
            t \in 1..Len(X[e])} : e \in Entities}

\* test_lag's expected frame: df.dropna(), then the result's columns.
expected_lag(X, lags) ==
    {[entity |-> r.entity, time |-> r.time, lag |-> r.lag] :
        r \in {q \in pd_lag(X, lags) :
                  /\ q.value # Null
                  /\ \A k \in lags : q.lag[k] # Null}}

\* ------------------------------------------------------------------ roll
Stats == {"mean", "std"}

RECURSIVE SumSq(_)
SumSq(s) == IF s = <<>> THEN 0 ELSE Head(s) * Head(s) + SumSq(Tail(s))

\* A window statistic as an exact ratio.  The mean is sum / w.  The standard
\* deviation (ddof = 1) is the root of (w * sum(x^2) - sum(x)^2) / (w * (w - 1)):
\* the cell holds that ratio, the root being one-to-one; it is undefined for
\* a window of one value.
Stat(stat, vals) ==
    LET w == Len(vals) IN
    IF stat = "mean" THEN Some([num |-> SumSeq(vals), den |-> w])
    ELSE IF w = 1 THEN Null
    ELSE Some([num |-> w * SumSq(vals) - SumSeq(vals) * SumSeq(vals),
               den |-> w * (w - 1)])

\* functime.preprocessing.roll: per entity and time t, each statistic over the
\* w values before t; null while fewer than w values precede t.
roll(X, ws, stats) ==
    UNION {{[entity |-> e, time |-> t,
             stat |-> [p \in ws \X stats |->
                        IF t > p[1]
                        THEN Stat(p[2], SubSeq(X[e], t - p[1], t - 1))
                        ELSE Null]] :
            t \in 1..Len(X[e])} : e \in Entities}

MaxTime(X) == Max({Len(X[e]) : e \in Entities})

\* X.unstack(level=0): one column per entity over the union of the times,
\* NaN where the entity has no row.
Wide(X) ==
    [e \in Present(X) |->
        [t \in 1..MaxTime(X) |-> IF t <= Len(X[e]) THEN Some(X[e][t]) ELSE Null]]

\* X.rolling(w).<stat>(): the statistic of the w rows ending at t, NaN unless
\* all w are there.
Rolling(col, w, stat) ==
    [t \in 1..Len(col) |->
        IF t >= w /\ \A j \in (t - w + 1)..t : col[j] # Null
        THEN Stat(stat, [j \in 1..w |-> col[t - w + j][1]])
        ELSE Null]

\* The window left where rolling() puts it: it ends at t itself.
NoShift(col) == col

\* .shift(1): the window ending at t - 1 is reported at t.
ShiftOne(col) == [t \in 1..Len(col) |-> IF t > 1 THEN col[t - 1] ELSE Null]

\* The tests' reference for roll; stack(dropna=False) keeps the NaN rows.
pd_roll(X, ws, stats) ==
    UNION {{[entity |-> e, time |-> t,
             stat |-> [p \in ws \X stats |->
                        ShiftOne(Rolling(Wide(X)[e], p[1], p[2]))[t]]] :
            t \in 1..MaxTime(X)} : e \in Present(X)}

\* ------------------------------------------------------------------ diff
\* One seasonal difference of a series: element i is s[i + sp] - s[i], the
\* value of time i + sp.
DiffOnce(s, sp) == [i \in 1..(Len(s) - sp) |-> s[i + sp] - s[i]]

RECURSIVE DiffSeq(_, _, _)
DiffSeq(s, order, sp) ==
    IF order = 0 THEN s ELSE DiffSeq(DiffOnce(s, sp), order - 1, sp)

LastN(s, n) == SubSeq(s, Len(s) - n + 1, Len(s))

\* diff(order, sp) forward: the order-th seasonal difference per entity; the
\* first order * sp rows of an entity have no predecessor and are dropped.
diff(X, order, sp) ==
    UNION {{[entity |-> e, time |-> t,
             value |-> DiffSeq(X[e], order, sp)[t - order * sp]] :
            t \in (order * sp + 1)..Len(X[e])} : e \in Entities}

\* The state diff retains: per entity, the last order * sp raw values.
diff_state(X, order, sp) ==
    [e \in Present(X) |->
        IF Len(X[e]) >= order * sp THEN LastN(X[e], order * sp) ELSE X[e]]

\* One difference undone: tail holds the last sp values of the series that
\* was differenced, and every earlier value is the one sp later minus the
\* difference between them.
UndiffOnce(d, tail, sp) ==
    LET n == Len(d) + sp
        y[j \in 1..n] ==
            IF j > Len(d) THEN tail[j - Len(d)] ELSE y[j + sp] - d[j]
    IN  [j \in 1..n |-> y[j]]

RECURSIVE Undiff(_, _, _, _)
Undiff(d, st, order, sp) ==
    IF order = 0 THEN d
    ELSE LET lvl == order - 1
             tail == DiffSeq(LastN(st, (lvl + 1) * sp), lvl, sp)
         IN  Undiff(UndiffOnce(d, tail, sp), st, lvl, sp)

\* The rows of entity e in a frame, as the series of their values by time.
ColumnOf(rows, e) ==
    LET T == {r.time : r \in {q \in rows : q.entity = e}}
        lo == Min(T)
    IN  [i \in 1..Cardinality(T) |->
            (CHOOSE r \in rows : r.entity = e /\ r.time = lo + i - 1).value]

\* diff(order, sp).invert: the differences summed back from the retained
\* values, at the rows of the frame it is given.
diff_invert(rows, st, order, sp) ==
    UNION {{[entity |-> e, time |-> r.time,
             value |-> Undiff(ColumnOf(rows, e), st[e], order, sp)
                          [r.time - Min({q.time : q \in {q \in rows : q.entity = e}})
                             + 1 + order * sp]] :
            r \in {q \in rows : q.entity = e}} : e \in {q.entity : q \in rows}}

\* A difference over the whole column, not within each group.
FrameDiff(X, sp) ==
    [e \in Entities |->
        [t \in 1..Len(X[e]) |->
            LET p == RowsBefore(X, e, 1) + t IN
            IF p > sp THEN Some(X[e][t] - LongColumn(X, 1)[p - sp]) ELSE Null]]

\* pandas groupby(entity).diff(periods=sp): NaN on the first sp rows of a group.
GroupDiff(X, sp) ==
    [e \in Entities |->
        [t \in 1..Len(X[e]) |->
            IF t > sp THEN Some(X[e][t] - X[e][t - sp]) ELSE Null]]

\* test_diff's expected forward frame: the group differences, dropna().
expected_diff(X, sp) ==
    UNION {{[entity |-> e, time |-> t, value |-> GroupDiff(X, sp)[e][t][1]] :
            t \in {u \in 1..Len(X[e]) : GroupDiff(X, sp)[e][u] # Null}} :
           e \in Entities}

\* test_diff's expected inverse: X_new's keys left-joined with X.
expected_original(X, keys) ==
    {[entity |-> r.entity, time |-> r.time, value |-> X[r.entity][r.time]] :
        r \in keys}

\* ---------------------------------------------------------------- boxcox
\* The Box-Cox parameter fitted on a sample.  The maximum-likelihood fit is
\* the estimator's own; the model needs only that it is a function of the
\* sample, and takes this one.
FitLambda(s) == (SumSeq(s) % 3) - 1

\* The Box-Cox image of x under lambda, kept as the pair: for x # 1 the
\* image is one-to-one in x and in lambda, and 1 maps to 0 under every lambda.
BoxCox(l, x) == IF x = 1 THEN [lmbda |-> 0, x |-> 1] ELSE [lmbda |-> l, x |-> x]

\* One parameter fitted on the whole value column.
FrameLambda(X) == [e \in Present(X) |-> FitLambda(LongColumn(X, 1))]

\* One parameter per entity, fitted on that entity's values.
GroupLambda(X) == [e \in Present(X) |-> FitLambda(X[e])]

\* functime.preprocessing.boxcox: fits lambda per entity, keeps it as state.
boxcox_state(X) == [e \in Present(X) |-> FitLambda(X[e])]

boxcox(X) ==
    UNION {{[entity |-> e, time |-> t,
             value |-> BoxCox(boxcox_state(X)[e], X[e][t])] :
            t \in 1..Len(X[e])} : e \in Entities}

\* test_boxcox's expected frame: PowerTransformer fitted per group.
expected_boxcox(X) ==
    UNION {{[entity |-> e, time |-> t,
             value |-> BoxCox(GroupLambda(X)[e], X[e][t])] :
            t \in 1..Len(X[e])} : e \in Entities}

\* ------------------------------------------------------- calendar effects
\* A timestamp is a day number; freq is the step between two timestamps.
CalendarAttrs == {"weekday", "week"}

\* getattr(time_col.dt, attr)() cast to Utf8: the label of a calendar field.
CalendarLabel(attr, t) ==
    IF attr = "weekday" THEN ToString((t % 7) + 1) ELSE ToString((t \div 7) + 1)

\* add_calendar_effects(attrs): X.with_columns adds one categorical column
\* per attribute; the rows, their order and their own columns are those of X.
add_calendar_effects(attrs, X) ==
    [i \in 1..Len(X) |->
        [f \in DOMAIN X[i] \cup {"effects"} |->
            IF f = "effects"
            THEN [a \in attrs |-> CalendarLabel(a, X[i].time)]
            ELSE X[i][f]]]

CountryCodes == <<"US", "SG">>

\* country_holidays(code, years).get(t): the holiday's name, or None.  The
\* calendar is the holidays package's; the model takes a small one.
HolidayName(code, t) ==
    IF code = "US" /\ t % 4 = 0 THEN Some("New Year's Day")
    ELSE IF code = "SG" /\ t % 3 = 0 THEN Some("Hari Raya-Puasa")
    ELSE Null

\* .str.to_lowercase().str.replace_all("'", "").str.replace_all("-", "")
\* .str.replace_all(" ", "_"), on the names of the calendar; null stays null.
HolidayLabel(name) ==
    IF name = Null THEN Null
    ELSE IF name[1] = "New Year's Day" THEN Some("new_years_day")
    ELSE Some("hari_rayapuasa")

\* The time column of a frame, and its distinct values in increasing order.
TimesOf(X) == {X[i].time : i \in 1..Len(X)}

RECURSIVE SortedSeq(_)
SortedSeq(S) ==
    IF S = {} THEN <<>> ELSE <<Min(S)>> \o SortedSeq(S \ {Min(S)})

\* X.select(time_col).collect().get_column(time_col).unique().to_list()
Timestamps(X) == SortedSeq(TimesOf(X))

\* name=f"holiday__{country_codes[i]}"
HolidayColumn(code) == "holiday__" \o code

\* [country.get(t) for t in timestamps] holds no name: the label list of
\* the country is a list of None only, and the Series built from it is not a
\* string column.
AllNone(code, timestamps) ==
    \A i \in 1..Len(timestamps) : HolidayName(code, timestamps[i]) = Null

\* The holidays frame: one row per entry of the timestamp list, one named
\* label column per country code, in the order of the codes.  The string
\* operations on the label columns raise SchemaError when one of them is
\* not a string column.
HolidayFrame(codes, timestamps) ==
    IF \E j \in 1..Len(codes) : AllNone(codes[j], timestamps)
    THEN [status |-> "SchemaError", rows |-> <<>>]
    ELSE [status |-> "ok",
          rows |->
            [i \in 1..Len(timestamps) |->
                [time |-> timestamps[i],
                 holiday |-> [j \in 1..Len(codes) |->
                                [name |-> HolidayColumn(codes[j]),
                                 label |-> HolidayLabel(
                                     HolidayName(codes[j], timestamps[i]))]]]]]

\* A row of X with the holiday columns added; X's own columns stay.
WithHoliday(row, cols) ==
    [f \in DOMAIN row \cup {"holiday"} |->
        IF f = "holiday" THEN cols ELSE row[f]]

\* X.join(right, how="left", on=time_col): every row of X, in X's order,
\* once per row of right with its time, or once with nulls when none has.
RECURSIVE JoinLeft(_, _, _)
JoinLeft(X, right, codes) ==
    IF X = <<>> THEN <<>>
    ELSE LET row == Head(X)
             hits == SelectSeq(right, LAMBDA h : h.time = row.time)
             joined ==
                IF hits = <<>>
                THEN <<WithHoliday(row,
                          [j \in 1..Len(codes) |->
                              [name |-> HolidayColumn(codes[j]),
                               label |-> Null]])>>
                ELSE [i \in 1..Len(hits) |->
                        WithHoliday(row, hits[i].holiday)]
         IN  joined \o JoinLeft(Tail(X), right, codes)

\* add_holiday_effects(country_codes, freq): min() of an empty timestamp
\* list raises ValueError; building the holidays frame may raise; otherwise
\* the left join on the distinct times.
add_holiday_effects(codes, X) ==
    LET timestamps == Timestamps(X) IN
    IF timestamps = <<>> THEN [status |-> "ValueError", rows |-> <<>>]
    ELSE LET holidays == HolidayFrame(codes, timestamps) IN
         IF holidays.status # "ok"
         THEN [status |-> holidays.status, rows |-> <<>>]
         ELSE [status |-> "ok", rows |-> JoinLeft(X, holidays.rows, codes)]

\* The panel as a long frame: a row (entity, time, value) per observation,
\* sorted by entity and time.
RECURSIVE LongFrame(_, _)
LongFrame(X, i) ==
    IF i > Len(EntityOrder) THEN <<>>
    ELSE [t \in 1..Len(X[EntityOrder[i]]) |->
            [entity |-> EntityOrder[i], time |-> t,
             value |-> X[EntityOrder[i]][t]]]
         \o LongFrame(X, i + 1)

\* The lists of country codes a caller passes: some codes, each once.
CodeLists ==
    {c \in UNION {[1..n -> {CountryCodes[k] : k \in DOMAIN CountryCodes}] :
                    n \in 1..Len(CountryCodes)} :
        \A i, j \in DOMAIN c : c[i] = c[j] => i = j}

\* The (entity, time) index of a panel.
Index(X) ==
    UNION {{[entity |-> e, time |-> t] : t \in 1..Len(X[e])} : e \in Entities}

\* The largest time of the whole index, given to every entity.
GlobalCutoffs(idx) ==
    [e \in {r.entity : r \in idx} |-> Max({r.time : r \in idx})]

\* idx.groupby(entity_col).agg(pl.col(time_col).max().alias("low"))
Cutoffs(idx) ==
    [e \in {r.entity : r \in idx} |->
        Max({r.time : r \in {q \in idx : q.entity = e}})]

\* functime.ranges.make_future_ranges: per entity, the list of the fh
\* timestamps after its cutoff, one step apart.
make_future_ranges(cutoffs, fh, step) ==
    [e \in DOMAIN cutoffs |-> [i \in 1..fh |-> cutoffs[e] + i * step]]

\* .explode(time_col): one row per list element, the groups in the order
\* the group-by returned them (order lists the entities; any order may come).
RECURSIVE Explode(_, _)
Explode(ranges, order) ==
    IF order = <<>> THEN <<>>
    ELSE (IF Head(order) \in DOMAIN ranges
          THEN [i \in 1..Len(ranges[Head(order)]) |->
                   [entity |-> Head(order), time |-> ranges[Head(order)][i]]]
          ELSE <<>>)
         \o Explode(ranges, Tail(order))

future_idx(idx, fh, step, order) ==
    Explode(make_future_ranges(Cutoffs(idx), fh, step), order)

make_future_calendar_effects(idx, attrs, fh, step, order) ==
    [status |-> "ok",
     rows |-> add_calendar_effects(attrs, future_idx(idx, fh, step, order))]

make_future_holiday_effects(idx, codes, fh, step, order) ==
    add_holiday_effects(codes, future_idx(idx, fh, step, order))

\* ------------------------------------------------------------ forecasters
Kinds == {"linear_model", "lasso", "ridge", "elastic_net"}
Strategies == {"recursive", "direct", "ensemble"}
\* fit_intercept in the forecaster's kwargs: not given, True or False.
Intercepts == {"unset", "true", "false"}
\* The X given to fit: None, numeric columns only, or with a categorical one.
Exogs == {"none", "numeric", "categorical"}

Configs ==
    [kind : Kinds, lags : 1..MaxLag, max_horizons : 1..MaxFh,
     strategy : Strategies, fit_intercept : Intercepts]

\* linear_model._fit's check of the dummy variable trap; the other classes'
\* _fit have none.
DummyTrapRaises(c, x) ==
    /\ c.kind = "linear_model"
    /\ x # "none"
    /\ x = "categorical"
    /\ c.fit_intercept = "true"

\* The call passes lags + 1.
FitArgsLagsOff(c) ==
    [lags |-> c.lags + 1, max_horizons |-> c.max_horizons,
     strategy |-> c.strategy]

\* The call leaves strategy out: fit_autoreg falls back to recursive.
FitArgsNoStrategy(c) ==
    [lags |-> c.lags, max_horizons |-> c.max_horizons,
     strategy |-> "recursive"]

\* The call leaves max_horizons out: one horizon.
FitArgsNoHorizons(c) ==
    [lags |-> c.lags, max_horizons |-> 1, strategy |-> c.strategy]

\* The keyword arguments every _fit hands to fit_autoreg.
FitArgs(c) ==
    [lags |-> c.lags, max_horizons |-> c.max_horizons,
     strategy |-> c.strategy]

\* The training rows of entity e for horizon h with lags 1..L: the features
\* at time t are the L values up to t, the target is the value at t + h.
TrainRows(X, L, h, e) ==
    {[entity |-> e, t |-> t, x |-> [k \in 1..L |-> X[e][t + 1 - k]],
      y |-> X[e][t + h]] : t \in L..(Len(X[e]) - h)}

AllTrainRows(X, L, h) == UNION {TrainRows(X, L, h, e) : e \in Present(X)}

\* The horizons fit must train a model for.
RequiredHorizons(a) ==
    IF a.strategy = "recursive" THEN {1} ELSE 1..a.max_horizons

\* Some required horizon has no training row for some entity, or there is
\* no entity at all.
InsufficientData(X, a) ==
    \/ Present(X) = {}
    \/ \E e \in Present(X) : \E h \in RequiredHorizons(a) :
        TrainRows(X, a.lags, h, e) = {}

RECURSIVE Residuals(_)
Residuals(rows) ==
    IF rows = {} THEN 0
    ELSE LET r == CHOOSE q \in rows : TRUE
         IN  (r.y - r.x[1]) + Residuals(rows \ {r})

\* The regress function: the estimator fitted on the rows it is given.  The
\* estimator is the library's; the model takes a fixed one, the last value
\* plus the summed residual of that rule on the training rows, and keeps the
\* rows the estimator saw.
regress(rows) == [train |-> rows, bias |-> Residuals(rows)]

\* The fitted estimator's prediction from one feature row.
ModelPredict(m, x) == x[1] + m.bias

\* The feature row after the last value of a series: its last L values,
\* latest first.
LastFeatures(s, L) == [k \in 1..L |-> s[Len(s) + 1 - k]]

Ratio(n, d) == [num |-> n, den |-> d]
\* (a + b) / 2
Mean2(a, b) == Ratio(a + b, 2)

NotFitted == [strategy |-> "none", lags |-> 0, models |-> <<>>]
NoWalk == [step |-> 0, hist |-> <<>>, feats |-> <<>>, preds |-> <<>>,
           rec |-> <<>>]

ForecasterNew ==
    /\ pc = "new"
    /\ err = "none"
    /\ args = <<>>
    /\ partial = <<>>
    /\ ncalls = 0
    /\ fitted = NotFitted
    /\ pfh = 0
    /\ walk = NoWalk
    /\ y_pred = <<>>

\* _fit with the check moved below the call: fit_autoreg has been handed its
\* arguments by the time X is checked.
FitCheckLast ==
    /\ pc = "new"
    /\ args' = FitArgs(cfg)
    /\ IF DummyTrapRaises(cfg, exog)
       THEN /\ pc' = "failed"
            /\ err' = "ValueError"
       ELSE /\ pc' = "autoreg"
            /\ err' = err
    /\ UNCHANGED <<panel, cfg, exog, partial, ncalls, fitted, pfh, walk, y_pred>>
    /\ UNCHANGED featureVars

\* forecaster.fit(y, X): _fit checks the dummy variable trap where the class
\* has the check, builds the regress function and calls fit_autoreg.
Fit ==
    /\ pc = "new"
    /\ IF DummyTrapRaises(cfg, exog)
       THEN /\ pc' = "failed"
            /\ err' = "ValueError"
            /\ args' = args
       ELSE /\ pc' = "autoreg"
            /\ err' = err
            /\ args' = FitArgs(cfg)
    /\ UNCHANGED <<panel, cfg, exog, partial, ncalls, fitted, pfh, walk, y_pred>>
    /\ UNCHANGED featureVars

\* fit_autoreg builds the training rows of every required horizon and raises
\* InsufficientDataError if one of them is empty for an entity.
CheckData ==
    /\ pc = "autoreg"
    /\ IF InsufficientData(panel, args)
       THEN /\ pc' = "failed"
            /\ err' = "InsufficientDataError"
       ELSE /\ pc' = "training"
            /\ err' = err
    /\ UNCHANGED <<panel, cfg, exog, args, partial, ncalls, fitted, pfh, walk, y_pred>>
    /\ UNCHANGED featureVars

\* fit_autoreg trains the model of the next horizon.
FitStep ==
    /\ pc = "training"
    /\ Len(partial) < Cardinality(RequiredHorizons(args))
    /\ partial' = Append(partial,
                    regress(AllTrainRows(panel, args.lags, Len(partial) + 1)))
    /\ ncalls' = ncalls + 1
    /\ UNCHANGED <<panel, cfg, exog, pc, err, args, fitted, pfh, walk, y_pred>>
    /\ UNCHANGED featureVars

\* fit_autoreg returns the models and fit keeps them as the fitted state.
FitReturn ==
    /\ pc = "training"
    /\ Len(partial) = Cardinality(RequiredHorizons(args))
    /\ fitted' = [strategy |-> args.strategy, lags |-> args.lags,
                  models |-> partial]
    /\ partial' = <<>>
    /\ pc' = "fitted"
    /\ UNCHANGED <<panel, cfg, exog, err, args, ncalls, pfh, walk, y_pred>>
    /\ UNCHANGED featureVars

\* forecaster.predict(fh): the walk-forward buffers start as the observed
\* series; the ensemble strategy trains its recursive model here.
Predict ==
    /\ pc = "fitted"
    /\ \E h \in 1..MaxFh :
        /\ fitted.strategy # "recursive" => h <= Len(fitted.models)
        /\ pfh' = h
    /\ walk' = [step |-> 0,
                hist |-> [e \in Present(panel) |-> panel[e]],
                feats |-> [e \in Present(panel) |-> <<>>],
                preds |-> [e \in Present(panel) |-> <<>>],
                rec |-> CASE fitted.strategy = "recursive" -> fitted.models[1]
                          [] fitted.strategy = "ensemble" ->
                                regress(AllTrainRows(panel, fitted.lags, 1))
                          [] OTHER -> <<>>]
    /\ ncalls' = IF fitted.strategy = "ensemble" THEN ncalls + 1 ELSE ncalls
    /\ pc' = "predicting"
    /\ UNCHANGED <<panel, cfg, exog, err, args, partial, fitted, y_pred>>
    /\ UNCHANGED featureVars

WalkSteps == IF fitted.strategy = "direct" THEN 0 ELSE pfh

\* One step of the walk-forward loop: every entity's next value is predicted
\* from its own buffer and appended to it.
PredictStep ==
    /\ pc = "predicting"
    /\ walk.step < WalkSteps
    /\ LET x == [e \in DOMAIN walk.hist |->
                    LastFeatures(walk.hist[e], fitted.lags)]
           next == [e \in DOMAIN walk.hist |-> ModelPredict(walk.rec, x[e])]
       IN  walk' = [walk EXCEPT
                      !.step = @ + 1,
                      !.feats = [e \in DOMAIN walk.feats |->
                                  Append(walk.feats[e], x[e])],
                      !.hist = [e \in DOMAIN walk.hist |->
                                  Append(walk.hist[e], next[e])],
                      !.preds = [e \in DOMAIN walk.preds |->
                                  Append(walk.preds[e], next[e])]]
    /\ UNCHANGED <<panel, cfg, exog, pc, err, args, partial, ncalls, fitted, pfh, y_pred>>
    /\ UNCHANGED featureVars

\* The direct model of horizon h applied to the last observed features of e.
DirectPrediction(X, f, e, h) ==
    ModelPredict(f.models[h], LastFeatures(X[e], f.lags))

\* predict returns one row per entity and future timestamp: the recursive
\* value, the direct value, or the mean of the two.
PredictReturn ==
    /\ pc = "predicting"
    /\ walk.step = WalkSteps
    /\ LET grid == make_future_ranges(Cutoffs(Index(panel)), pfh, 1)
           value(e, h) ==
               CASE fitted.strategy = "recursive" -> Ratio(walk.preds[e][h], 1)
                 [] fitted.strategy = "direct" ->
                       Ratio(DirectPrediction(panel, fitted, e, h), 1)
                 [] fitted.strategy = "ensemble" ->
                       Mean2(DirectPrediction(panel, fitted, e, h),
                             walk.preds[e][h])
       IN  y_pred' = [e \in DOMAIN grid |->
                        [h \in 1..pfh |->
                            [time |-> grid[e][h], value |-> value(e, h)]]]
    /\ pc' = "predicted"
    /\ UNCHANGED <<panel, cfg, exog, err, args, partial, ncalls, fitted, pfh, walk>>
    /\ UNCHANGED featureVars

NextForecast ==
    \/ Fit
    \/ CheckData
    \/ FitStep
    \/ FitReturn
    \/ Predict
    \/ PredictStep
    \/ PredictReturn

\* ------------------------------------------------------------ the calls
LagSets == (SUBSET (1..MaxLag)) \ {{}}

MaxOrder == 2

\* The orders in which a group-by may return the entities.
GroupOrders ==
    {o \in [1..Len(EntityOrder) -> Entities] :
        \A e \in Entities : \E i \in DOMAIN o : o[i] = e}

Calls ==
    {[op |-> "lag", lags |-> L] : L \in LagSets}
    \cup {[op |-> "roll", ws |-> W, stats |-> S] :
            W \in (SUBSET (1..MaxWin)) \ {{}}, S \in (SUBSET Stats) \ {{}}}
    \cup {[op |-> "diff", order |-> o, sp |-> p] :
            o \in 1..MaxOrder, p \in 1..MaxSp}
    \cup {[op |-> "boxcox"]}
    \cup {[op |-> "holiday", codes |-> C] : C \in CodeLists}
    \cup {[op |-> "future_calendar", attrs |-> A, fh |-> h, step |-> f,
            order |-> o] :
            A \in {CalendarAttrs}, h \in 1..MaxFh,
            f \in 1..MaxStep, o \in GroupOrders}
    \cup {[op |-> "future_holiday", codes |-> C, fh |-> h, step |-> f,
            order |-> o] :
            C \in {CountryCodes}, h \in 1..MaxFh,
            f \in 1..MaxStep, o \in GroupOrders}

Apply(c, X) ==
    CASE c.op = "lag" ->
        [out |-> lag(X, c.lags), exp |-> expected_lag(X, c.lags)]
      [] c.op = "roll" ->
        [out |-> roll(X, c.ws, c.stats), exp |-> pd_roll(X, c.ws, c.stats)]
      [] c.op = "diff" ->
        LET fwd == diff(X, c.order, c.sp)
            st == diff_state(X, c.order, c.sp)
        IN  [out |-> fwd, state |-> st,
             inv |-> diff_invert(fwd, st, c.order, c.sp),
             exp |-> expected_diff(X, c.sp),
             exp_inv |-> expected_original(X, {[entity |-> r.entity, time |-> r.time] : r \in fwd})]
      [] c.op = "boxcox" ->
        [out |-> boxcox(X), state |-> boxcox_state(X), exp |-> expected_boxcox(X)]
      [] c.op = "holiday" ->
        [out |-> add_holiday_effects(c.codes, LongFrame(X, 1))]
      [] c.op = "future_calendar" ->
        [out |-> make_future_calendar_effects(Index(X), c.attrs, c.fh, c.step, c.order),
         grid |-> future_idx(Index(X), c.fh, c.step, c.order)]
      [] c.op = "future_holiday" ->
        [out |-> make_future_holiday_effects(Index(X), c.codes, c.fh, c.step, c.order),
         grid |-> future_idx(Index(X), c.fh, c.step, c.order)]

NoCall == [op |-> "none"]
NoRes == [out |-> {}]
NoEdit == [kind |-> "none"]

\* One edit of one entity's rows: a changed value, a new last row, or the
\* last row removed.
Edits(X) ==
    UNION {
        UNION {{[kind |-> "set", entity |-> e, time |-> t, value |-> v] :
                   v \in Values \ {X[e][t]}} : t \in 1..Len(X[e])}
        \cup {[kind |-> "append", entity |-> e, value |-> v] :
            v \in IF Len(X[e]) < MaxLen THEN Values ELSE {}}
        \cup {[kind |-> "drop", entity |-> e] :
            v \in IF Len(X[e]) > 0 THEN {0} ELSE {}}
        : e \in Entities}

Edited(X, d) ==
    CASE d.kind = "none" -> X
      [] d.kind = "set" -> [X EXCEPT ![d.entity][d.time] = d.value]
      [] d.kind = "append" -> [X EXCEPT ![d.entity] = Append(@, d.value)]
      [] d.kind = "drop" ->
            [X EXCEPT ![d.entity] = SubSeq(@, 1, Len(@) - 1)]

FeaturesIdle ==
    /\ call = NoCall
    /\ res = NoRes
    /\ edit = NoEdit
    /\ res2 = NoRes

InitFeatures ==
    /\ panel \in Panels
    /\ FeaturesIdle
    /\ ForecasterNew
    /\ cfg = [kind |-> "linear_model", lags |-> 1, max_horizons |-> 1,
              strategy |-> "recursive", fit_intercept |-> "unset"]
    /\ exog = "none"

\* A transform is called on the panel.
Call ==
    /\ call = NoCall
    /\ \E c \in Calls :
        /\ call' = c
        /\ res' = Apply(c, panel)
    /\ UNCHANGED <<panel, edit, res2>>
    /\ UNCHANGED forecastVars

\* The same transform is called on a panel that differs by one edit.
Rerun ==
    /\ call # NoCall
    /\ edit = NoEdit
    /\ \E d \in Edits(panel) :
        /\ edit' = d
        /\ res2' = Apply(call, Edited(panel, d))
    /\ UNCHANGED <<panel, call, res>>
    /\ UNCHANGED forecastVars

NextFeatures == Call \/ Rerun

SpecFeatures == InitFeatures /\ [][NextFeatures]_vars

\* The forecasters the tests fit, with their default keyword arguments and
\* no exogenous frame, on every panel.
InitForecast ==
    /\ panel \in Panels
    /\ FeaturesIdle
    /\ ForecasterNew
    /\ cfg \in {c \in Configs : /\ c.kind \in {"linear_model", "elastic_net"}
                                 /\ c.fit_intercept = "unset"}
    /\ exog = "none"

SpecForecast == InitForecast /\ [][NextForecast]_vars

\* The panels of the forecasting tests: every entity has the same number of
\* observations at the same times, with values of its own.
FitPanels == {X \in Panels : \A e \in Entities : Len(X[e]) = Len(X["a"])}

\* Every forecaster class, every fit_intercept and every kind of X.
InitFit ==
    /\ panel \in FitPanels
    /\ FeaturesIdle
    /\ ForecasterNew
    /\ cfg \in Configs
    /\ exog \in Exogs

SpecFit == InitFit /\ [][NextForecast]_vars

\* ================================================================ claims
\* The row of a frame at a key, if the frame has it.
RowsAt(rows, e, t) == {r \in rows : r.entity = e /\ r.time = t}

\* What the lag claim asks of a frame of lag features built from X.
LagContract(rows, X, lags) ==
    /\ \A r \in rows : \A k \in lags :
          /\ r.time - k >= 1
          /\ r.lag[k] = Some(X[r.entity][r.time - k])
    /\ \A e \in Entities : \A t \in 1..Len(X[e]) :
          (\E k \in lags : t - k < 1) => RowsAt(rows, e, t) = {}

\* C1: every lag feature at (entity, t, k) is that entity's raw value k
\* observations before t, and a row with a lag that falls before the entity's
\* first observation is absent; this holds of lag's output and of the frame
\* test_lag expects of it, which are the same frame.
C1_LagIsOwnPastValue ==
    call.op = "lag" =>
        /\ LagContract(res.out, panel, call.lags)
        /\ LagContract(res.exp, panel, call.lags)
        /\ res.out = res.exp

\* Two lags were asked for, rows were dropped for lack of history and rows
\* were emitted, of an entity whose values differ.
C1_Witness ==
    /\ call.op = "lag"
    /\ Cardinality(call.lags) = 2
    /\ \E r \in res.out : r.lag[1] # r.lag[2]
    /\ \E e \in Entities : Len(panel[e]) > 0 /\ RowsAt(res.out, e, 1) = {}
    /\ \A e \in Entities : Len(panel[e]) > 0


\* The time an edit touches in the edited entity's series.
EditTime(d, X) ==
    CASE d.kind = "set" -> d.time
      [] d.kind = "append" -> Len(X[d.entity]) + 1
      [] d.kind = "drop" -> Len(X[d.entity])

\* Between two frames of window statistics, every statistic at (e, t, w)
\* whose window t-w .. t-1 of e the edit did not touch is the same.
SameOutsideWindow(rows, rows2, d, X) ==
    \A r \in rows : \A r2 \in RowsAt(rows2, r.entity, r.time) :
        \A p \in DOMAIN r.stat :
            (\/ d.entity # r.entity
             \/ EditTime(d, X) \notin (r.time - p[1])..(r.time - 1))
            => r2.stat[p] = r.stat[p]

\* C2: the window statistic at (entity, t, w) is computed from that entity's
\* values at t-w .. t-1 only: an edit of the value at t or later, of a value
\* before t-w, or of another entity leaves it as it was, in roll's output
\* and in the frame test_roll expects of it.
C2_WindowExcludesPresent ==
    (call.op = "roll" /\ edit # NoEdit) =>
        /\ SameOutsideWindow(res.out, res2.out, edit, panel)
        /\ SameOutsideWindow(res.exp, res2.exp, edit, panel)

\* A value was changed at a time t where a statistic is defined: the
\* statistic at t stayed and the one at t + 1 moved.
C2_Witness ==
    /\ call.op = "roll"
    /\ edit # NoEdit
    /\ edit.kind = "set"
    /\ \E r \in res.out : \E p \in DOMAIN r.stat :
        /\ r.entity = edit.entity
        /\ r.time = edit.time
        /\ r.stat[p] # Null
        /\ \E r2 \in RowsAt(res2.out, r.entity, r.time) : r2.stat[p] = r.stat[p]
        /\ \E q \in RowsAt(res.out, r.entity, r.time + 1) :
            \E q2 \in RowsAt(res2.out, r.entity, r.time + 1) :
                q2.stat[p] # q.stat[p]

\* C3: diff(1, sp) forward is y[t] - y[t-sp] per entity, without the rows
\* that have no predecessor sp steps back, as test_diff expects; and for
\* every order, invert on the forward output gives back the original value at
\* every row of the forward output.
C3_DiffRoundTrip ==
    call.op = "diff" =>
        /\ call.order = 1 =>
            /\ \A e \in Entities : \A t \in 1..Len(panel[e]) :
                 IF t > call.sp
                 THEN RowsAt(res.out, e, t) =
                        {[entity |-> e, time |-> t,
                          value |-> panel[e][t] - panel[e][t - call.sp]]}
                 ELSE RowsAt(res.out, e, t) = {}
            /\ res.out = res.exp
        /\ \A r \in res.out : r.time \in 1..Len(panel[r.entity])
        /\ res.inv = {[entity |-> r.entity, time |-> r.time,
                       value |-> panel[r.entity][r.time]] : r \in res.out}
        /\ res.inv = res.exp_inv

\* A seasonal difference (sp = 2) was taken of two entities of unequal
\* length, rows were dropped, a difference is not zero, and the inverse has
\* the rows of the forward output.
C3_Witness ==
    /\ call.op = "diff"
    /\ call.order = 1
    /\ call.sp = 2
    /\ Len(panel["a"]) = 3
    /\ Len(panel["b"]) = 1
    /\ \E r \in res.out : r.value # 0
    /\ Cardinality(res.inv) = Cardinality(res.out)
    /\ res.inv # {}

\* The times of the rows of entity e in a frame of rows, in row order.
RECURSIVE TimesOfEntity(_, _)
TimesOfEntity(rows, e) ==
    IF rows = <<>> THEN <<>>
    ELSE (IF Head(rows).entity = e THEN <<Head(rows).time>> ELSE <<>>)
         \o TimesOfEntity(Tail(rows), e)

IsFuture(c) == c.op \in {"future_calendar", "future_holiday"}

\* C4: the future index that make_future_calendar_effects and
\* make_future_holiday_effects generate has, for every entity of the index,
\* exactly fh rows; the first is one step after the entity's own last
\* timestamp and each next one a step later, in increasing order.  The frame
\* the function returns, when it returns one, has those rows; the calendar
\* variant always returns one.
C4_FutureRangePerEntity ==
    IsFuture(call) =>
        /\ call.op = "future_calendar" => res.out.status = "ok"
        /\ \A e \in Present(panel) :
            LET ts == TimesOfEntity(res.grid, e)
                last == Max({r.time : r \in {q \in Index(panel) : q.entity = e}})
            IN  /\ Len(ts) = call.fh
                /\ \A i \in 1..Len(ts) : ts[i] = last + i * call.step
                /\ \A i \in 1..(Len(ts) - 1) : ts[i] < ts[i + 1]
                /\ res.out.status = "ok" =>
                        TimesOfEntity(res.out.rows, e) = ts

\* Two entities with different last timestamps got their future rows, two
\* each, two days apart.
C4_Witness ==
    /\ IsFuture(call)
    /\ call.fh = 2
    /\ call.step = 2
    /\ Len(panel["a"]) = 1
    /\ Len(panel["b"]) = 3
    /\ TimesOfEntity(res.grid, "a") = <<3, 5>>
    /\ TimesOfEntity(res.grid, "b") = <<5, 7>>
    /\ res.out.status = "ok"
    /\ TimesOfEntity(res.out.rows, "b") = <<5, 7>>

RowsOfEntity(rows, e) == {r \in rows : r.entity = e}

StateOfEntity(st, e) == IF e \in DOMAIN st THEN Some(st[e]) ELSE Null

\* The two runs agree on everything they returned for entity e.
SameForEntity(c, r1, r2, e) ==
    CASE c.op = "lag" ->
            /\ RowsOfEntity(r1.out, e) = RowsOfEntity(r2.out, e)
            /\ RowsOfEntity(r1.exp, e) = RowsOfEntity(r2.exp, e)
      [] c.op = "roll" ->
            RowsOfEntity(r1.out, e) = RowsOfEntity(r2.out, e)
      [] c.op = "diff" ->
            /\ RowsOfEntity(r1.out, e) = RowsOfEntity(r2.out, e)
            /\ RowsOfEntity(r1.exp, e) = RowsOfEntity(r2.exp, e)
            /\ RowsOfEntity(r1.inv, e) = RowsOfEntity(r2.inv, e)
            /\ StateOfEntity(r1.state, e) = StateOfEntity(r2.state, e)
      [] c.op = "boxcox" ->
            /\ RowsOfEntity(r1.out, e) = RowsOfEntity(r2.out, e)
            /\ RowsOfEntity(r1.exp, e) = RowsOfEntity(r2.exp, e)
            /\ StateOfEntity(r1.state, e) = StateOfEntity(r2.state, e)
      [] IsFuture(c) ->
            /\ SelectSeq(r1.grid, LAMBDA r : r.entity = e)
                    = SelectSeq(r2.grid, LAMBDA r : r.entity = e)
            /\ c.op = "future_calendar" =>
                    SelectSeq(r1.out.rows, LAMBDA r : r.entity = e)
                        = SelectSeq(r2.out.rows, LAMBDA r : r.entity = e)

\* C10: when two panels differ only in the rows of one entity, every other
\* entity gets the same transform output (lag, roll, diff, boxcox), the same
\* retained state (diff, boxcox) and the same future timestamp grid from
\* both.  Holiday effects are not among the transforms this speaks of.
C10_EntityNoninterference ==
    (edit # NoEdit /\ call.op # "holiday") =>
        \A e \in Entities \ {edit.entity} :
            SameForEntity(call, res, res2, e)

\* Entity a got a row more and so a later last timestamp than b, whose
\* future rows stayed those after b's own last timestamp.
C10_Witness ==
    /\ IsFuture(call)
    /\ edit # NoEdit
    /\ edit.kind = "append"
    /\ edit.entity = "a"
    /\ Len(panel["a"]) = 2
    /\ Len(panel["b"]) = 2
    /\ call.step = 1
    /\ call.fh = 2
    /\ TimesOfEntity(res2.grid, "a") = <<4, 5>>
    /\ TimesOfEntity(res2.grid, "b") = <<3, 4>>

\* fit has been called and has gone past fit_autoreg's check of the data.
FitDecided == pc \notin {"new", "autoreg"}
HasFitted == pc \in {"fitted", "predicting", "predicted"}

\* C5: a recursive forecaster fitted on a panel whose entities all have more
\* observations than the largest lag is fitted without InsufficientDataError,
\* and predict(fh) returns, for every entity of the panel and for no other,
\* exactly fh rows with the times last + 1, ..., last + fh of that entity.
C5_RecursiveForecastGrid ==
    (/\ cfg.strategy = "recursive"
     /\ Present(panel) # {}
     /\ \A e \in Present(panel) : Len(panel[e]) > cfg.lags)
    =>  /\ err # "InsufficientDataError"
        /\ pc = "predicted" =>
            /\ DOMAIN y_pred = Present(panel)
            /\ \A e \in Present(panel) :
                /\ Len(y_pred[e]) = pfh
                /\ \A h \in 1..pfh : y_pred[e][h].time = Len(panel[e]) + h
                /\ \A h \in 1..(pfh - 1) :
                    y_pred[e][h].time < y_pred[e][h + 1].time

\* Two entities of different length, the shorter with one observation more
\* than the lag, were forecast two steps ahead.
C5_Witness ==
    /\ cfg.strategy = "recursive"
    /\ cfg.lags = 1
    /\ pc = "predicted"
    /\ pfh = 2
    /\ Len(panel["a"]) = 2
    /\ Len(panel["b"]) = 3
    /\ y_pred["a"][1].time = 3
    /\ y_pred["a"][2].time = 4
    /\ y_pred["b"][2].time = 5
    /\ y_pred["a"][1].value # y_pred["b"][1].value

\* C6: under the ensemble strategy the prediction for every entity and every
\* horizon h of 1..fh is the unweighted mean of two values: the prediction of
\* the direct model of horizon h and the h-th value of the recursive
\* walk-forward of that entity.
C6_EnsembleIsMean ==
    (cfg.strategy = "ensemble" /\ pc = "predicted") =>
        /\ fitted.strategy = "ensemble"
        /\ Len(fitted.models) >= pfh
        /\ DOMAIN y_pred = Present(panel)
        /\ \A e \in Present(panel) :
            /\ Len(y_pred[e]) = pfh
            /\ Len(walk.preds[e]) = pfh
            /\ \A h \in 1..pfh :
                y_pred[e][h].value =
                    Mean2(DirectPrediction(panel, fitted, e, h),
                          walk.preds[e][h])

\* An ensemble forecast two steps ahead in which, at the second step, the
\* direct and the recursive prediction of an entity differ.
C6_Witness ==
    /\ cfg.strategy = "ensemble"
    /\ pc = "predicted"
    /\ pfh = 2
    /\ \E e \in Present(panel) :
        /\ DirectPrediction(panel, fitted, e, 2) # walk.preds[e][2]
        /\ y_pred[e][2].value.den = 2

\* C7: under the direct strategy with fh horizons fit trains exactly fh
\* models, and the model of horizon h sees, of an entity with N observations,
\* only training rows with feature time t <= N - h, whose target is that
\* entity's value at t + h.
C7_DirectRowsStayInHistory ==
    (cfg.strategy = "direct" /\ HasFitted) =>
        /\ Len(fitted.models) = cfg.max_horizons
        /\ ncalls = cfg.max_horizons
        /\ \A h \in 1..Len(fitted.models) :
            \A r \in fitted.models[h].train :
                /\ r.t >= 1
                /\ r.t <= Len(panel[r.entity]) - h
                /\ r.y = panel[r.entity][r.t + h]

\* Two direct models were fitted; the second has a training row and has
\* fewer rows than the first.
C7_Witness ==
    /\ cfg.strategy = "direct"
    /\ cfg.max_horizons = 2
    /\ pc = "fitted"
    /\ fitted.models[2].train # {}
    /\ Cardinality(fitted.models[2].train) < Cardinality(fitted.models[1].train)

\* C8: fit with an X that has a categorical column, on a linear forecaster
\* that fits an intercept (fit_intercept True, or left to the estimator's
\* default of True), raises and never returns a fitted model.
C8_DummyTrapRejected ==
    (/\ exog = "categorical"
     /\ cfg.fit_intercept \in {"unset", "true"})
    => ~HasFitted

\* C9: once fit_autoreg has checked the data, fit has failed with
\* InsufficientDataError if a required horizon has no training row for an
\* entity; and the fitted state is never partial: it is empty while fit runs
\* and after it failed, and holds a model for every required horizon after.
C9_InsufficientDataAtomic ==
    /\ (/\ FitDecided
        /\ err # "ValueError"
        /\ \E e \in Present(panel) : \E h \in RequiredHorizons(cfg) :
            TrainRows(panel, cfg.lags, h, e) = {})
       => (pc = "failed" /\ err = "InsufficientDataError")
    /\ pc = "failed" => (fitted = NotFitted /\ partial = <<>> /\ ncalls = 0)
    /\ ~HasFitted => fitted = NotFitted
    /\ HasFitted =>
        /\ Len(fitted.models) = Cardinality(RequiredHorizons(cfg))
        /\ \A h \in 1..Len(fitted.models) :
            \A e \in Present(panel) :
                \E r \in fitted.models[h].train : r.entity = e

\* A direct fit of two horizons failed although the first horizon had
\* training rows for every entity: the second had none for entity b.
C9_Witness ==
    /\ cfg.strategy = "direct"
    /\ cfg.max_horizons = 2
    /\ pc = "failed"
    /\ err = "InsufficientDataError"
    /\ \A e \in Entities : TrainRows(panel, cfg.lags, 1, e) # {}
    /\ TrainRows(panel, cfg.lags, 2, "b") = {}
    /\ TrainRows(panel, cfg.lags, 2, "a") # {}

\* C12: when fit has raised the error of an input check, fit_autoreg was
\* never called and the regress function was never invoked, and nothing of
\* the forecaster's fitted state was written; and in no execution in which
\* fit raised has an estimator been fitted.
C12_ValidationBeforeFitting ==
    /\ (pc = "failed" /\ err = "ValueError") =>
            /\ args = <<>>
            /\ ncalls = 0
            /\ partial = <<>>
            /\ fitted = NotFitted
    /\ err # "none" => ncalls = 0

\* linear_model with fit_intercept=True rejected a categorical X on a panel
\* it could otherwise have been fitted on.
C12_Witness ==
    /\ pc = "failed"
    /\ err = "ValueError"
    /\ cfg.kind = "linear_model"
    /\ cfg.fit_intercept = "true"
    /\ exog = "categorical"
    /\ ~InsufficientData(panel, FitArgs(cfg))

\* C13: in a recursive predict(fh) the walk-forward loop makes at most fh
\* steps and has made exactly fh when predict returns; every step builds one
\* feature row and makes one prediction for every entity; at step i the lag-k
\* feature of an entity is its own prediction of step i - k when k < i, and
\* otherwise its observed value k - i + 1 positions from the end (the last
\* one being position 1); and an entity's buffer is its observed series
\* followed by its own predictions, in the order they were made.
C13_WalkForward ==
    (cfg.strategy = "recursive" /\ pc \in {"predicting", "predicted"}) =>
        /\ walk.step <= pfh
        /\ pc = "predicted" => walk.step = pfh
        /\ DOMAIN walk.hist = Present(panel)
        /\ \A e \in Present(panel) :
            /\ Len(walk.preds[e]) = walk.step
            /\ Len(walk.feats[e]) = walk.step
            /\ walk.hist[e] = panel[e] \o walk.preds[e]
            /\ \A i \in 1..walk.step :
                /\ DOMAIN walk.feats[e][i] = 1..cfg.lags
                /\ walk.preds[e][i] = ModelPredict(walk.rec, walk.feats[e][i])
                /\ \A k \in 1..cfg.lags :
                    walk.feats[e][i][k] =
                        IF k < i THEN walk.preds[e][i - k]
                        ELSE panel[e][Len(panel[e]) + 1 - (k - i + 1)]

\* A recursive forecaster with two lags walked two steps: at the second step
\* entity a's lag-1 feature was its first prediction, which is not a value a
\* observed last, and its lag-2 feature its last observed value; entity b's
\* first prediction was another one.
C13_Witness ==
    /\ cfg.strategy = "recursive"
    /\ cfg.lags = 2
    /\ pc = "predicted"
    /\ pfh = 2
    /\ Present(panel) = Entities
    /\ walk.feats["a"][2][1] = walk.preds["a"][1]
    /\ walk.feats["a"][2][1] # panel["a"][Len(panel["a"])]
    /\ walk.feats["a"][2][2] = panel["a"][Len(panel["a"])]
    /\ walk.preds["b"][1] # walk.preds["a"][1]

\* The columns of the input frame in a row of the output.
InputColumns(row) == [f \in DOMAIN row \ {"holiday"} |-> row[f]]

\* C14: when add_holiday_effects returns, its output has as many rows as the
\* input and every input row occurs in it exactly once with its own columns
\* unchanged; every row has got one column per country code, named
\* holiday__<code>, in the order of the codes; two rows with the same time
\* carry the same labels; and a label is null exactly where the time is not a
\* holiday of that country.  It returns whenever the input has a row.
C14_HolidayEffectsPreserveRows ==
    call.op = "holiday" =>
        LET X == LongFrame(panel, 1)
            Y == res.out.rows
        IN  /\ X # <<>> => res.out.status = "ok"
            /\ res.out.status = "ok" =>
                /\ Len(Y) = Len(X)
                /\ \A i \in DOMAIN X :
                    Cardinality({j \in DOMAIN Y : InputColumns(Y[j]) = X[i]}) = 1
                /\ \A j \in DOMAIN Y :
                    /\ DOMAIN Y[j] = DOMAIN X[1] \cup {"holiday"}
                    /\ Len(Y[j].holiday) = Len(call.codes)
                    /\ \A k \in DOMAIN call.codes :
                        /\ Y[j].holiday[k].name = HolidayColumn(call.codes[k])
                        /\ (Y[j].holiday[k].label = Null)
                            <=> (HolidayName(call.codes[k], Y[j].time) = Null)
                    /\ \A j2 \in DOMAIN Y :
                        Y[j2].time = Y[j].time => Y[j2].holiday = Y[j].holiday

====
